---- MODULE Spec2Model ----
(***************************************************************************)
(* Model of the WiFi provider of the ambient-light client                  *)
(* (client/context/WiFiContext.tsx): device discovery over a UDP broadcast *)
(* socket, the single connection to one device, and the region-colour      *)
(* frames handed to the connection socket; and of the camera screen        *)
(* (CameraScreen, in the same file), whose periodic capture timer samples  *)
(* the region colours and hands them to the provider.                      *)
(*                                                                         *)
(* One action is one run of a handler on the JavaScript event loop: a call *)
(* made by the user interface, a socket callback, or a timer.  A handler   *)
(* the user interface calls reads the state of the latest render; a        *)
(* handler captured by a closure reads what the closure captured.          *)
(***************************************************************************)
EXTENDS Integers, Sequences, FiniteSets, TLC

\* ------------------------------------------------------------------ bounds
MaxScans == 2          \* discovery sockets created in one behaviour of SpecScan
MaxMainScans == 1      \* discovery sockets created in one behaviour of Spec
MaxConnects == 2       \* connection sockets created in one behaviour
MaxFrames == 2         \* region frames of SpecFrames
WrapFrames == 65536    \* region frames of SpecWrap
MaxSeq == 3             \* seqRef in SpecStream
MaxMockTimers == 2     \* placeholder-population timers pending together
MaxTimers == 2         \* capture timers created in one behaviour of SpecEngine
MaxCaptures == 1       \* captures in flight together
MaxEngineConnects == 1 \* connection sockets created in one behaviour of SpecEngine
MaxEngineSeq == 2      \* seqRef in SpecEngine
MaxSendSeq == 2        \* seqRef in SpecSend
MaxOrderCaptures == 2  \* captures in flight together in SpecOrder
MaxOrderSeq == 3       \* seqRef in SpecOrder

\* ------------------------------------------------------- program constants
ESP_UDP_PORT == 7777
BROADCAST_PORT == 7778
MAGIC == 43981         \* 0xabcd
VERSION == 1
SeqModulus == 65536    \* & 0xffff

NoSocket == 0
NoDevice ==
  [id |-> "", name |-> "", ipAddress |-> "", port |-> 0, rssi |-> 0, isConnected |-> FALSE]

MOCK_DEVICES ==
  << [id |-> "mock-1", name |-> "ESP LED Test (Mock)", ipAddress |-> "192.168.1.100",
      port |-> ESP_UDP_PORT, rssi |-> -45, isConnected |-> FALSE],
     [id |-> "mock-2", name |-> "ESP LED Living Room (Mock)", ipAddress |-> "192.168.1.101",
      port |-> ESP_UDP_PORT, rssi |-> -62, isConnected |-> FALSE] >>

\* The unset value of lastRegionsRef: four empty strings.  A colour string is
\* modelled as the sequence of its characters.
UnsetRegions == << <<>>, <<>>, <<>>, <<>> >>

\* --------------------------------------------------------------- the inputs
Platforms == {"web", "expo", "native"}   \* browser; native without react-native-udp; native
Addrs == {"10.0.0.1", "10.0.0.2"}        \* sender addresses of discovery datagrams

\* A field a JSON response leaves out.
Absent == "absent"

\* Discovery datagrams.  parses = FALSE is a datagram JSON.parse throws on.
\* Two devices may answer with the same id; a device that sends no id is
\* known by its address.
WithId == [parses |-> TRUE, type |-> "ESP_LED_DEVICE", id |-> "esp", name |-> Absent,
           port |-> 0, rssi |-> -45]
WithoutId == [parses |-> TRUE, type |-> "ESP_LED_DEVICE", id |-> Absent, name |-> "Lamp",
              port |-> 8888, rssi |-> -45]
Weaker == [parses |-> TRUE, type |-> "ESP_LED_DEVICE", id |-> Absent, name |-> Absent,
           port |-> 0, rssi |-> -62]
OtherType == [parses |-> TRUE, type |-> "OTHER", id |-> "esp", name |-> Absent,
              port |-> 0, rssi |-> -45]
Unparsable == [parses |-> FALSE, type |-> Absent, id |-> Absent, name |-> Absent,
               port |-> 0, rssi |-> 0]

\* Every kind of datagram, the well-formed responses of the discovery
\* specification, and the fewer ones of the specification of the whole
\* provider.
Datagrams == {WithId, WithoutId, Weaker, OtherType, Unparsable}
WellFormed == {WithId, WithoutId, Weaker}
FewDatagrams == {WithId, WithoutId}

VARIABLES
  platform,         \* Platform.OS and whether react-native-udp loads
  devices,          \* useState devices: the registry, a sequence of devices
  connectedDevice,  \* useState connectedDevice (NoDevice for null)
  isScanning,       \* useState isScanning
  udpSocket,        \* useState udpSocket: a connection socket id (NoSocket for null)
  seqRef,           \* seqRef.current
  lastRegionsRef,   \* lastRegionsRef.current
  scanSocks,        \* the discovery sockets created so far, in creation order
  connSocks,        \* the connection sockets created so far, in creation order
  mockTimers,       \* pending 1500 ms placeholder timers
  sentPacket,       \* the last packet handed to a connection socket
  mounted,          \* CameraScreen is mounted
  isActive,         \* CameraScreen useState isActive
  shownColors,      \* CameraScreen useState colors (colors names a parameter below)
  intervalRef,      \* CameraScreen intervalRef.current: a timer id (NoTimer for null)
  timers,           \* the capture intervals created so far, in creation order
  captures,         \* the captures in flight: the closures of the ticks that began them
  updateRate        \* settings.updateRate

screenVars == << mounted, isActive, shownColors, intervalRef, timers, captures, updateRate >>

vars == << platform, devices, connectedDevice, isScanning, udpSocket, seqRef,
           lastRegionsRef, scanSocks, connSocks, mockTimers, sentPacket, screenVars >>

NoPacket == [kind |-> "none", sock |-> NoSocket, address |-> "", port |-> 0, bytes |-> <<>>]

\* State of the provider's first render (useState / useRef initial values).
InitProvider ==
  /\ devices = <<>>
  /\ connectedDevice = NoDevice
  /\ isScanning = FALSE
  /\ udpSocket = NoSocket
  /\ seqRef = 0
  /\ lastRegionsRef = UnsetRegions
  /\ scanSocks = <<>>
  /\ connSocks = <<>>
  /\ mockTimers = 0
  /\ sentPacket = NoPacket

\* The neutral colour and the colours CameraScreen shows before any capture.
Neutral == << "#", "2", "A", "3", "3", "4", "0" >>
PLACEHOLDER ==
  [top |-> Neutral, right |-> Neutral, bottom |-> Neutral, left |-> Neutral,
   dominant |-> Neutral]

NoTimer == 0
Rates == {5, 10}       \* settings.updateRate, updates per second

\* CameraScreen before it is mounted.
NoScreen ==
  /\ mounted = FALSE
  /\ isActive = FALSE
  /\ shownColors = PLACEHOLDER
  /\ intervalRef = NoTimer
  /\ timers = <<>>
  /\ captures = <<>>
  /\ updateRate = 10

Init ==
  /\ platform \in Platforms
  /\ InitProvider
  /\ NoScreen

\* ---------------------------------------------------------------- discovery

\* The device a well-formed response from `address` describes.
NewDevice(response, address) ==
  [ id |-> IF response.id = Absent THEN address ELSE response.id,
    name |-> IF response.name = Absent THEN "ESP LED (" \o address \o ")" ELSE response.name,
    ipAddress |-> address,
    port |-> IF response.port = 0 THEN ESP_UDP_PORT ELSE response.port,
    rssi |-> response.rssi,
    isConnected |-> FALSE ]

\* prev.findIndex(d => d.ipAddress === address): the first index, 0 for -1.
FindIndex(prev, address) ==
  IF \E i \in 1..Len(prev) : prev[i].ipAddress = address
  THEN CHOOSE i \in 1..Len(prev) :
         /\ prev[i].ipAddress = address
         /\ \A j \in 1..(i - 1) : prev[j].ipAddress # address
  ELSE 0

\* Mutant of UpsertDevice: a known address gets the whole new entry.
UpsertReplaces(prev, newDevice) ==
  LET existingIndex == FindIndex(prev, newDevice.ipAddress)
  IN IF existingIndex >= 1
     THEN [prev EXCEPT ![existingIndex] = newDevice]
     ELSE Append(prev, newDevice)

\* The updater handed to setDevices by the message handler.
UpsertDevice(prev, newDevice) ==
  LET existingIndex == FindIndex(prev, newDevice.ipAddress)
  IN IF existingIndex >= 1
     THEN [prev EXCEPT ![existingIndex].rssi = newDevice.rssi]
     ELSE Append(prev, newDevice)

\* No datagram was dropped yet.
NoDrop == -1

\* A discovery socket: state is binding, bound, unbound (the bind failed) or
\* closed; droppedAt is the length of the registry when the message handler
\* first dropped a datagram (NoDrop before that).
NewScanSock ==
  [state |-> "binding", interval |-> FALSE, timeout |-> FALSE, droppedAt |-> NoDrop]

\* startScan on the web, or without react-native-udp: the placeholder path.
StartScanMock ==
  /\ platform \in {"web", "expo"}
  /\ mockTimers < MaxMockTimers
  /\ isScanning' = TRUE
  /\ devices' = <<>>
  /\ mockTimers' = mockTimers + 1
  /\ UNCHANGED << platform, connectedDevice, udpSocket, seqRef, lastRegionsRef,
                  scanSocks, connSocks, sentPacket >>
  /\ UNCHANGED screenVars

\* Mutant of MockTimerFires: the scan ends with the registry as it is.
MockTimerKeepsRegistry ==
  /\ mockTimers > 0
  /\ mockTimers' = mockTimers - 1
  /\ isScanning' = FALSE
  /\ UNCHANGED << platform, devices, connectedDevice, udpSocket, seqRef, lastRegionsRef,
                  scanSocks, connSocks, sentPacket >>
  /\ UNCHANGED screenVars

\* The 1500 ms timer of the placeholder path.
MockTimerFires ==
  /\ mockTimers > 0
  /\ mockTimers' = mockTimers - 1
  /\ devices' = MOCK_DEVICES
  /\ isScanning' = FALSE
  /\ UNCHANGED << platform, connectedDevice, udpSocket, seqRef, lastRegionsRef,
                  scanSocks, connSocks, sentPacket >>
  /\ UNCHANGED screenVars

\* startScan with react-native-udp when the permissions are refused.
StartScanDenied ==
  /\ platform = "native"
  /\ UNCHANGED vars

\* startScan with react-native-udp and the permissions granted: a socket is
\* created and its bind requested.
StartScanNative ==
  /\ platform = "native"
  /\ isScanning' = TRUE
  /\ devices' = <<>>
  /\ scanSocks' = Append(scanSocks, NewScanSock)
  /\ UNCHANGED << platform, connectedDevice, udpSocket, seqRef, lastRegionsRef,
                  connSocks, mockTimers, sentPacket >>
  /\ UNCHANGED screenVars

\* startScan when createSocket or bind throws: the catch block.
StartScanThrows ==
  /\ platform = "native"
  /\ isScanning' = FALSE
  /\ devices' = <<>>
  /\ UNCHANGED << platform, connectedDevice, udpSocket, seqRef, lastRegionsRef,
                  scanSocks, connSocks, mockTimers, sentPacket >>
  /\ UNCHANGED screenVars

\* The bind callback of discovery socket s: the first broadcast, the 3 s
\* interval and the 30 s timeout.
ScanBound(s) ==
  /\ scanSocks[s].state = "binding"
  /\ scanSocks' = [scanSocks EXCEPT ![s] =
        [@ EXCEPT !.state = "bound", !.interval = TRUE, !.timeout = TRUE]]
  /\ UNCHANGED << platform, devices, connectedDevice, isScanning, udpSocket, seqRef,
                  lastRegionsRef, connSocks, mockTimers, sentPacket >>
  /\ UNCHANGED screenVars

\* The bind of discovery socket s fails: the socket emits 'error', which is
\* logged, and the bind callback never runs.
ScanBindFails(s) ==
  /\ scanSocks[s].state = "binding"
  /\ scanSocks' = [scanSocks EXCEPT ![s].state = "unbound"]
  /\ UNCHANGED << platform, devices, connectedDevice, isScanning, udpSocket, seqRef,
                  lastRegionsRef, connSocks, mockTimers, sentPacket >>
  /\ UNCHANGED screenVars

\* A tick of the 3 s interval of discovery socket s: sendDiscovery hands the
\* literal ESP_LED_DISCOVERY to the socket and changes no state of the provider.
ScanBroadcast(s) ==
  /\ scanSocks[s].interval
  /\ UNCHANGED vars

\* The 30 s timeout of discovery socket s.
ScanTimeout(s) ==
  /\ scanSocks[s].timeout
  /\ scanSocks' = [scanSocks EXCEPT ![s] =
        [@ EXCEPT !.state = "closed", !.interval = FALSE, !.timeout = FALSE]]
  /\ isScanning' = FALSE
  /\ UNCHANGED << platform, devices, connectedDevice, udpSocket, seqRef,
                  lastRegionsRef, connSocks, mockTimers, sentPacket >>
  /\ UNCHANGED screenVars

\* The message handler drops the datagram: JSON.parse throws on it, or its
\* type is not ESP_LED_DEVICE.
Malformed(msg) == ~(msg.parses /\ msg.type = "ESP_LED_DEVICE")

\* Mutant of OnMessageDevices: the type of the response is not looked at.
OnMessageAnyType(prev, msg, address) ==
  IF msg.parses
  THEN UpsertDevice(prev, NewDevice(msg, address))
  ELSE prev

\* The registry after the 'message' handler has run on datagram msg from address.
OnMessageDevices(prev, msg, address) ==
  IF msg.parses /\ msg.type = "ESP_LED_DEVICE"
  THEN UpsertDevice(prev, NewDevice(msg, address))
  ELSE prev

\* The 'message' handler of discovery socket s.
ScanMessage(s, msg, address) ==
  /\ scanSocks[s].state = "bound"
  /\ devices' = OnMessageDevices(devices, msg, address)
  /\ scanSocks' = IF Malformed(msg) /\ scanSocks[s].droppedAt = NoDrop
                  THEN [scanSocks EXCEPT ![s].droppedAt = Len(devices)]
                  ELSE scanSocks
  /\ UNCHANGED << platform, connectedDevice, isScanning, udpSocket, seqRef,
                  lastRegionsRef, connSocks, mockTimers, sentPacket >>
  /\ UNCHANGED screenVars

\* The 'error' handler of discovery socket s: the error is logged.
ScanSocketError(s) ==
  /\ scanSocks[s].state = "bound"
  /\ UNCHANGED vars

StopScan ==
  /\ isScanning' = FALSE
  /\ UNCHANGED << platform, devices, connectedDevice, udpSocket, seqRef,
                  lastRegionsRef, scanSocks, connSocks, mockTimers, sentPacket >>
  /\ UNCHANGED screenVars

\* The steps of discovery, with at most maxScans discovery sockets created
\* and the datagrams drawn from datagrams, sent from addresses.
ScanStep(maxScans, datagrams, addresses) ==
  \/ StartScanMock
  \/ MockTimerFires
  \/ StartScanDenied
  \/ (Len(scanSocks) < maxScans /\ StartScanNative)
  \/ StopScan
  \/ StartScanThrows
  \/ \E s \in 1..Len(scanSocks) : ScanBound(s)
  \/ \E s \in 1..Len(scanSocks) : ScanBindFails(s)
  \/ \E s \in 1..Len(scanSocks) : ScanBroadcast(s)
  \/ \E s \in 1..Len(scanSocks) : ScanTimeout(s)
  \/ \E s \in 1..Len(scanSocks), msg \in datagrams, address \in addresses :
        ScanMessage(s, msg, address)
  \/ \E s \in 1..Len(scanSocks) : ScanSocketError(s)

\* ------------------------------------------------- the screen's effect
\* The effect of CameraScreen depends on isActive and on startColorAnalysis,
\* which is created anew when settings.updateRate, settings.cropCorners,
\* connectedDevice or sendRegionColors (connectedDevice, udpSocket) change.
\* The render that follows a state change and the effect it runs are taken
\* in the step of the handler that changed the state.

\* The part of the screen's state the effect reads and writes.
ScreenState ==
  [isActive |-> isActive, colors |-> shownColors, intervalRef |-> intervalRef, timers |-> timers]

SetScreenState(st) ==
  /\ isActive' = st.isActive
  /\ shownColors' = st.colors
  /\ intervalRef' = st.intervalRef
  /\ timers' = st.timers

\* An interval that was cleared: it never ticks again and its closure is gone.
ClearedTimer == [live |-> FALSE, period |-> 0, cd |-> NoDevice, sock |-> NoSocket]

\* clearInterval(id) for a non-null id.
ClearInterval(ts, id) ==
  IF id # NoTimer THEN [ts EXCEPT ![id] = ClearedTimer] ELSE ts

\* startColorAnalysis of the render in which settings.updateRate = rate,
\* connectedDevice = cd and sendRegionColors captured (cd, sock).
startColorAnalysis(st, rate, cd, sock) ==
  [st EXCEPT
     !.timers = Append(ClearInterval(st.timers, st.intervalRef),
                       [live |-> TRUE, period |-> 1000 \div rate, cd |-> cd, sock |-> sock]),
     !.intervalRef = Len(st.timers) + 1]

stopColorAnalysis(st) ==
  [st EXCEPT !.timers = ClearInterval(st.timers, st.intervalRef),
             !.intervalRef = NoTimer,
             !.colors = PLACEHOLDER]

\* Mutant of EffectCleanup: the interval is left running.
CleanupKeepsTimer(st) == st

\* The cleanup the effect returns: the interval is cleared, the ref is kept.
EffectCleanup(st) ==
  [st EXCEPT !.timers = ClearInterval(st.timers, st.intervalRef)]

\* The body of the effect.
RunEffect(st, rate, cd, sock) ==
  IF st.isActive THEN startColorAnalysis(st, rate, cd, sock) ELSE stopColorAnalysis(st)

\* A dependency of the effect changed: its cleanup, then its body.
RerunEffect(st, rate, cd, sock) ==
  RunEffect(EffectCleanup(st), rate, cd, sock)

\* The screen after a handler of the provider has run.  force: the handler
\* set connectedDevice to a new object, which is a change whatever it holds.
ScreenFollows(force) ==
  IF mounted /\ (force \/ connectedDevice' # connectedDevice \/ udpSocket' # udpSocket)
  THEN /\ isActive => Len(timers) < MaxTimers
       /\ SetScreenState(RerunEffect(ScreenState, updateRate, connectedDevice', udpSocket'))
       /\ UNCHANGED << mounted, captures, updateRate >>
  ELSE UNCHANGED screenVars

\* --------------------------------------------------------------- connection

\* A connection socket: state is binding, bound, unbound (the bind failed) or
\* closed; device is the argument of the connectDevice call that created it;
\* frames counts the region frames handed to it.
NewConnSock(device) ==
  [state |-> "binding", device |-> device, errored |-> FALSE, sendFailed |-> FALSE, frames |-> 0]

\* prev.map(d => d.id === device.id ? updatedDevice : {...d, isConnected: false})
MarkConnected(prev, device, updatedDevice) ==
  [i \in 1..Len(prev) |->
     IF prev[i].id = device.id THEN updatedDevice ELSE [prev[i] EXCEPT !.isConnected = FALSE]]

\* prev.map(d => d.id === connected.id ? {...d, isConnected: false} : d)
MarkDisconnected(prev, connected) ==
  [i \in 1..Len(prev) |->
     IF prev[i].id = connected.id THEN [prev[i] EXCEPT !.isConnected = FALSE] ELSE prev[i]]

\* The registry entries the device list offers to connectDevice.
Offered == {devices[i] : i \in 1..Len(devices)}

\* connectDevice(device) on the web: the placeholder connection, at once.
ConnectDeviceWeb(device) ==
  /\ platform = "web"
  /\ LET updatedDevice == [device EXCEPT !.isConnected = TRUE]
     IN /\ connectedDevice' = updatedDevice
        /\ devices' = MarkConnected(devices, device, updatedDevice)
  /\ UNCHANGED << platform, isScanning, udpSocket, seqRef, lastRegionsRef,
                  scanSocks, connSocks, mockTimers, sentPacket >>
  /\ ScreenFollows(TRUE)

\* connectDevice(device) without react-native-udp: require throws, the catch
\* block logs it.
ConnectDeviceThrows(device) ==
  /\ platform = "expo"
  /\ UNCHANGED vars

\* connectDevice(device) with react-native-udp: a socket is created and its
\* bind requested.
ConnectDeviceNative(device) ==
  /\ platform = "native"
  /\ connSocks' = Append(connSocks, NewConnSock(device))
  /\ UNCHANGED << platform, devices, connectedDevice, isScanning, udpSocket, seqRef,
                  lastRegionsRef, scanSocks, mockTimers, sentPacket >>
  /\ UNCHANGED screenVars

\* The state the bind callback of connection socket c sets.
ConnBoundEffect(c) ==
  LET device == connSocks[c].device
      updatedDevice == [device EXCEPT !.isConnected = TRUE]
  IN /\ udpSocket' = c
     /\ connectedDevice' = updatedDevice
     /\ devices' = MarkConnected(devices, device, updatedDevice)
     /\ connSocks' = [connSocks EXCEPT ![c].state = "bound"]
     /\ UNCHANGED << seqRef, lastRegionsRef >>

\* The bind callback of connection socket c.
ConnBound(c) ==
  /\ connSocks[c].state = "binding"
  /\ ConnBoundEffect(c)
  /\ UNCHANGED << platform, isScanning, scanSocks, mockTimers, sentPacket >>
  /\ ScreenFollows(TRUE)

\* The part of the state disconnectDevice reads and writes.
ConnState ==
  [devices |-> devices, connectedDevice |-> connectedDevice, udpSocket |-> udpSocket,
   connSocks |-> connSocks]

\* disconnectDevice run on state st as a closure that captured
\* connectedDevice = cd and udpSocket = sock.  closeThrows: udpSocket.close()
\* throws, so that setUdpSocket(null) is skipped.
Disconnected(st, cd, sock, closeThrows) ==
  LET closes == platform # "web" /\ sock # NoSocket /\ ~closeThrows
  IN [ connSocks |-> IF closes THEN [st.connSocks EXCEPT ![sock].state = "closed"]
                     ELSE st.connSocks,
       udpSocket |-> IF closes THEN NoSocket ELSE st.udpSocket,
       devices |-> IF cd # NoDevice THEN MarkDisconnected(st.devices, cd) ELSE st.devices,
       connectedDevice |-> IF cd # NoDevice THEN NoDevice ELSE st.connectedDevice ]

\* The 'error' handler of a connection socket, run on state st: it calls the
\* disconnectDevice that connectDevice captured.  connectDevice is memoised
\* with no dependencies, so that is the disconnectDevice of the first render,
\* whose connectedDevice and udpSocket are both null.
OnConnError(st) ==
  Disconnected(st, NoDevice, NoSocket, FALSE)

\* The provider's state becomes st.
SetConnState(st) ==
  /\ devices' = st.devices
  /\ connectedDevice' = st.connectedDevice
  /\ udpSocket' = st.udpSocket
  /\ connSocks' = st.connSocks

\* The bind of connection socket c fails: the socket stays unbound and emits
\* 'error'.
ConnBindFails(c) ==
  /\ connSocks[c].state = "binding"
  /\ SetConnState(OnConnError(
       [ConnState EXCEPT !.connSocks[c].state = "unbound", !.connSocks[c].errored = TRUE]))
  /\ UNCHANGED << platform, isScanning, seqRef, lastRegionsRef, scanSocks,
                  mockTimers, sentPacket >>
  /\ ScreenFollows(FALSE)

\* The bound connection socket c emits 'error'.
ConnSocketError(c) ==
  /\ connSocks[c].state = "bound"
  /\ ~connSocks[c].errored
  /\ SetConnState(OnConnError([ConnState EXCEPT !.connSocks[c].errored = TRUE]))
  /\ UNCHANGED << platform, isScanning, seqRef, lastRegionsRef, scanSocks,
                  mockTimers, sentPacket >>
  /\ ScreenFollows(FALSE)

\* disconnectDevice called by the user interface: the closure of the latest
\* render.
DisconnectDevice(closeThrows) ==
  /\ closeThrows => (platform # "web" /\ udpSocket # NoSocket)
  /\ SetConnState(Disconnected(ConnState, connectedDevice, udpSocket, closeThrows))
  /\ UNCHANGED << platform, isScanning, seqRef, lastRegionsRef, scanSocks,
                  mockTimers, sentPacket >>
  /\ ScreenFollows(FALSE)

\* The steps of the connection, with at most maxConnects connection sockets
\* created.
ConnStep(maxConnects) ==
  \/ \E device \in Offered : ConnectDeviceWeb(device)
  \/ \E device \in Offered : ConnectDeviceThrows(device)
  \/ \E device \in Offered : (Len(connSocks) < maxConnects /\ ConnectDeviceNative(device))
  \/ \E c \in 1..Len(connSocks) : ConnBound(c)
  \/ \E c \in 1..Len(connSocks) : ConnBindFails(c)
  \/ \E c \in 1..Len(connSocks) : ConnSocketError(c)
  \/ \E closeThrows \in BOOLEAN : DisconnectDevice(closeThrows)

\* ---------------------------------------------------------------- streaming

\* The value of one hexadecimal digit, -1 for any other character.
HexDigit(ch) ==
  CASE ch = "0" -> 0 [] ch = "1" -> 1 [] ch = "2" -> 2 [] ch = "3" -> 3 [] ch = "4" -> 4
    [] ch = "5" -> 5 [] ch = "6" -> 6 [] ch = "7" -> 7 [] ch = "8" -> 8 [] ch = "9" -> 9
    [] ch \in {"a", "A"} -> 10 [] ch \in {"b", "B"} -> 11 [] ch \in {"c", "C"} -> 12
    [] ch \in {"d", "D"} -> 13 [] ch \in {"e", "E"} -> 14 [] ch \in {"f", "F"} -> 15
    [] OTHER -> -1

\* hexToRgbBytes: /^#?([a-f\d]{2})([a-f\d]{2})([a-f\d]{2})$/i, [0, 0, 0] when
\* the string does not match.
hexToRgbBytes(hex) ==
  LET digits == IF Len(hex) >= 1 /\ hex[1] = "#" THEN Tail(hex) ELSE hex
  IN IF Len(digits) = 6 /\ \A i \in 1..6 : HexDigit(digits[i]) >= 0
     THEN << 16 * HexDigit(digits[1]) + HexDigit(digits[2]),
             16 * HexDigit(digits[3]) + HexDigit(digits[4]),
             16 * HexDigit(digits[5]) + HexDigit(digits[6]) >>
     ELSE << 0, 0, 0 >>

\* regions = [colors.top, colors.right, colors.bottom, colors.left]
RegionsOf(colors) == << colors.top, colors.right, colors.bottom, colors.left >>

\* The loop that pushes i (0-based) when regions[i] !== last[i], from the
\* i-th element (1-based) on.
RECURSIVE ChangedFrom(_, _, _)
ChangedFrom(regions, last, i) ==
  IF i > Len(regions)
  THEN <<>>
  ELSE (IF regions[i] # last[i] THEN << i - 1 >> ELSE <<>>) \o ChangedFrom(regions, last, i + 1)

ChangedIndexes(regions, last) == ChangedFrom(regions, last, 1)

\* Mutant of IsDelta: four changed regions are sent as a delta too.
IsDeltaUnbounded(changedIndexes, regions) ==
  Len(changedIndexes) > 0

IsDelta(changedIndexes, regions) ==
  Len(changedIndexes) > 0 /\ Len(changedIndexes) < Len(regions)

\* Mutant of NextSeq: the mask keeps one byte, & 0xff.
NextSeqByte(seq) == (seq + 1) % 256

\* seqRef.current = (seqRef.current + 1) & 0xffff
NextSeq(seq) == (seq + 1) % SeqModulus

\* Mutant of UInt16BE: the low byte is written first.
UInt16LE(v) == << v % 256, v \div 256 >>

\* writeUInt16BE
UInt16BE(v) == << v \div 256, v % 256 >>

\* The 8-byte header.
Header(flags, seq, ts) ==
  UInt16BE(MAGIC) \o << VERSION >> \o << flags >> \o UInt16BE(seq) \o UInt16BE(ts)

\* Mutant of DeltaEntries: the region index of an entry is not pushed.
RECURSIVE DeltaEntriesNoIndex(_, _, _)
DeltaEntriesNoIndex(changedIndexes, regions, k) ==
  IF k > Len(changedIndexes)
  THEN <<>>
  ELSE hexToRgbBytes(regions[changedIndexes[k] + 1])
       \o DeltaEntriesNoIndex(changedIndexes, regions, k + 1)

\* entries.push(idx, rgb[0], rgb[1], rgb[2]) for each changed index, from the
\* k-th changed index on.
RECURSIVE DeltaEntries(_, _, _)
DeltaEntries(changedIndexes, regions, k) ==
  IF k > Len(changedIndexes)
  THEN <<>>
  ELSE << changedIndexes[k] >> \o hexToRgbBytes(regions[changedIndexes[k] + 1])
       \o DeltaEntries(changedIndexes, regions, k + 1)

\* rgbValues.push(...hexToRgbBytes(color)) for each region, from the i-th on.
RECURSIVE FullValues(_, _)
FullValues(regions, i) ==
  IF i > Len(regions) THEN <<>> ELSE hexToRgbBytes(regions[i]) \o FullValues(regions, i + 1)

Payload(changedIndexes, regions) ==
  IF IsDelta(changedIndexes, regions)
  THEN << 2, Len(changedIndexes) >> \o DeltaEntries(changedIndexes, regions, 1)
  ELSE << 1 >> \o FullValues(regions, 1)

\* Buffer.concat([header, payload]) of one sendRegionColors call.
RegionPacket(regions, last, seq, ts) ==
  LET changedIndexes == ChangedIndexes(regions, last)
      flags == IF IsDelta(changedIndexes, regions) THEN 1 ELSE 0
  IN Header(flags, seq, ts) \o Payload(changedIndexes, regions)

\* Mutant of RegionSend: lastRegionsRef is written only when a frame is
\* handed to the socket.
RegionSendCommitsOnSuccess(cd, sock, colors, ts, throws) ==
  LET regions == RegionsOf(colors)
      seq == NextSeq(seqRef)
  IN IF cd = NoDevice \/ platform = "web" \/ sock = NoSocket
     THEN UNCHANGED << lastRegionsRef, seqRef, sentPacket, connSocks >>
     ELSE /\ seqRef' = seq
          /\ IF throws
             THEN UNCHANGED << lastRegionsRef, sentPacket, connSocks >>
             ELSE /\ lastRegionsRef' = regions
                  /\ sentPacket' =
                       [kind |-> "region", sock |-> sock, address |-> cd.ipAddress,
                        port |-> cd.port,
                        bytes |-> RegionPacket(regions, lastRegionsRef, seq, ts)]
                  /\ connSocks' = [connSocks EXCEPT ![sock].frames = @ + 1]

\* Mutant of RegionSend: a call that finds no region changed sends nothing.
RegionSendSkipsUnchanged(cd, sock, colors, ts, throws) ==
  LET regions == RegionsOf(colors)
      seq == NextSeq(seqRef)
  IN IF cd = NoDevice
     THEN UNCHANGED << lastRegionsRef, seqRef, sentPacket, connSocks >>
     ELSE /\ lastRegionsRef' = regions
          /\ IF platform = "web" \/ sock = NoSocket
                \/ Len(ChangedIndexes(regions, lastRegionsRef)) = 0
             THEN UNCHANGED << seqRef, sentPacket, connSocks >>
             ELSE /\ seqRef' = seq
                  /\ IF throws
                     THEN UNCHANGED << sentPacket, connSocks >>
                     ELSE /\ sentPacket' =
                               [kind |-> "region", sock |-> sock, address |-> cd.ipAddress,
                                port |-> cd.port,
                                bytes |-> RegionPacket(regions, lastRegionsRef, seq, ts)]
                          /\ connSocks' = [connSocks EXCEPT ![sock].frames = @ + 1]

\* sendRegionColors as a closure that captured connectedDevice = cd and
\* udpSocket = sock.  ts is Date.now() & 0xffff; throws: udpSocket.send throws.
RegionSend(cd, sock, colors, ts, throws) ==
  LET regions == RegionsOf(colors)
      seq == NextSeq(seqRef)
  IN IF cd = NoDevice
     THEN UNCHANGED << lastRegionsRef, seqRef, sentPacket, connSocks >>
     ELSE /\ lastRegionsRef' = regions
          /\ IF platform = "web" \/ sock = NoSocket
             THEN UNCHANGED << seqRef, sentPacket, connSocks >>
             ELSE /\ seqRef' = seq
                  /\ IF throws
                     THEN UNCHANGED << sentPacket, connSocks >>
                     ELSE /\ sentPacket' =
                               [kind |-> "region", sock |-> sock, address |-> cd.ipAddress,
                                port |-> cd.port,
                                bytes |-> RegionPacket(regions, lastRegionsRef, seq, ts)]
                          /\ connSocks' = [connSocks EXCEPT ![sock].frames = @ + 1]

\* sendRegionColors called by the closure of the latest render.
SendRegionColors(colors, ts, throws) ==
  /\ throws => (connectedDevice # NoDevice /\ platform # "web" /\ udpSocket # NoSocket)
  /\ RegionSend(connectedDevice, udpSocket, colors, ts, throws)
  /\ UNCHANGED << platform, devices, connectedDevice, isScanning, udpSocket, scanSocks,
                  mockTimers >>
  /\ UNCHANGED screenVars

\* sendColor as a closure that captured connectedDevice = cd and
\* udpSocket = sock: the 4-byte packet [0, r, g, b].
ColorSend(cd, sock, color, throws) ==
  IF cd = NoDevice \/ platform = "web" \/ sock = NoSocket \/ throws
  THEN UNCHANGED sentPacket
  ELSE sentPacket' = [kind |-> "color", sock |-> sock, address |-> cd.ipAddress,
                      port |-> cd.port, bytes |-> << 0 >> \o hexToRgbBytes(color)]

\* Mutant of SendColor: the colour command uses a sequence number too.
SendColorCounts(color, throws) ==
  /\ throws => (connectedDevice # NoDevice /\ platform # "web" /\ udpSocket # NoSocket)
  /\ ColorSend(connectedDevice, udpSocket, color, throws)
  /\ seqRef' = NextSeq(seqRef)
  /\ UNCHANGED << platform, devices, connectedDevice, isScanning, udpSocket,
                  lastRegionsRef, scanSocks, connSocks, mockTimers >>
  /\ UNCHANGED screenVars

\* sendColor called by the closure of the latest render.
SendColor(color, throws) ==
  /\ throws => (connectedDevice # NoDevice /\ platform # "web" /\ udpSocket # NoSocket)
  /\ ColorSend(connectedDevice, udpSocket, color, throws)
  /\ UNCHANGED << platform, devices, connectedDevice, isScanning, udpSocket, seqRef,
                  lastRegionsRef, scanSocks, connSocks, mockTimers >>
  /\ UNCHANGED screenVars

\* Mutant of SendCallback: a reported send error ends the session.
SendCallbackDisconnects(err) ==
  /\ sentPacket # NoPacket
  /\ connSocks' = IF err THEN [connSocks EXCEPT ![sentPacket.sock].sendFailed = TRUE,
                                                 ![sentPacket.sock].state = "closed"]
                         ELSE connSocks
  /\ connectedDevice' = IF err THEN NoDevice ELSE connectedDevice
  /\ udpSocket' = IF err THEN NoSocket ELSE udpSocket
  /\ UNCHANGED << platform, devices, isScanning, seqRef, lastRegionsRef, scanSocks,
                  mockTimers, sentPacket >>
  /\ UNCHANGED screenVars

\* The completion callback of a send, with or without an error: it logs.
\* sendFailed records that the socket reported a send error.
SendCallback(err) ==
  /\ sentPacket # NoPacket
  /\ connSocks' = IF err THEN [connSocks EXCEPT ![sentPacket.sock].sendFailed = TRUE]
                         ELSE connSocks
  /\ UNCHANGED << platform, devices, connectedDevice, isScanning, udpSocket, seqRef,
                  lastRegionsRef, scanSocks, mockTimers, sentPacket >>
  /\ UNCHANGED screenVars

\* Colour strings.
Dark == << "#", "1", "0", "2", "0", "3", "0" >>
White == << "#", "f", "f", "f", "f", "f", "f" >>
WHITE == << "F", "F", "F", "F", "F", "F" >>
Red == << "r", "e", "d" >>

Regions(top, right, bottom, left) ==
  [top |-> top, right |-> right, bottom |-> bottom, left |-> left]

\* The samples of the scenario "full, then delta".
FewSamples == { Regions(Dark, Dark, Dark, Dark), Regions(Dark, White, Dark, Dark) }

\* Every sample over the colours.
Colours == {Dark, White, WHITE}
AllSamples == { Regions(t, r, b, l) : t \in Colours, r \in Colours, b \in Colours, l \in Colours }

Stamps == {4660}       \* 0x1234

\* The steps of streaming while seqRef is below maxSeq; faults holds TRUE
\* when a send may throw.
StreamStep(samples, maxSeq, faults) ==
  \/ \E colors \in samples, ts \in Stamps, throws \in faults :
        seqRef < maxSeq /\ SendRegionColors(colors, ts, throws)
  \/ \E color \in {White, Red}, throws \in faults : SendColor(color, throws)
  \/ \E err \in BOOLEAN : SendCallback(err)

\* --------------------------------------------------------------- the engine

providerVars == << platform, devices, connectedDevice, isScanning, udpSocket, seqRef,
                   lastRegionsRef, scanSocks, connSocks, mockTimers, sentPacket >>

\* The colours analyzeRegions returns for a sample; the dominant colour is
\* taken to be that of the top region.
Sampled(sample) ==
  [top |-> sample.top, right |-> sample.right, bottom |-> sample.bottom,
   left |-> sample.left, dominant |-> sample.top]

\* seq without its k-th element.
Without(seq, k) == SubSeq(seq, 1, k - 1) \o SubSeq(seq, k + 1, Len(seq))

\* handleToggle: setIsActive(prev => !prev), and the effect that follows.
HandleToggle ==
  /\ mounted
  /\ ~isActive => Len(timers) < MaxTimers
  /\ SetScreenState(RerunEffect([ScreenState EXCEPT !.isActive = ~isActive],
                                updateRate, connectedDevice, udpSocket))
  /\ UNCHANGED << mounted, captures, updateRate >>
  /\ UNCHANGED providerVars

\* settings.updateRate becomes rate: startColorAnalysis is created anew and
\* the effect runs again.
ChangeUpdateRate(rate) ==
  /\ mounted
  /\ rate # updateRate
  /\ isActive => Len(timers) < MaxTimers
  /\ updateRate' = rate
  /\ SetScreenState(RerunEffect(ScreenState, rate, connectedDevice, udpSocket))
  /\ UNCHANGED << mounted, captures >>
  /\ UNCHANGED providerVars

\* The screen is unmounted: the cleanup of the effect runs.
UnmountScreen ==
  /\ mounted
  /\ mounted' = FALSE
  /\ SetScreenState(EffectCleanup(ScreenState))
  /\ UNCHANGED << captures, updateRate >>
  /\ UNCHANGED providerVars

\* A tick of interval t: takePictureAsync is called and awaited.  The capture
\* carries the closure of the tick: the connectedDevice and the
\* sendRegionColors of the render that created the interval.
TickWithin(t, maxCaptures) ==
  /\ timers[t].live
  /\ Len(captures) < maxCaptures
  /\ captures' = Append(captures, [cd |-> timers[t].cd, sock |-> timers[t].sock])
  /\ UNCHANGED << mounted, isActive, shownColors, intervalRef, timers, updateRate >>
  /\ UNCHANGED providerVars

\* A tick while fewer than MaxCaptures captures are awaited.
Tick(t) == TickWithin(t, MaxCaptures)

\* Capture k completes: img.onload analyses the photo, shows the colours and,
\* when the closure's connectedDevice is not null, calls the closure's
\* sendRegionColors.  setColors on an unmounted screen does nothing.
CaptureCompletes(k, sample, ts, throws) ==
  LET cd == captures[k].cd
      sock == captures[k].sock
  IN /\ throws => (cd # NoDevice /\ platform # "web" /\ sock # NoSocket)
     /\ shownColors' = IF mounted THEN Sampled(sample) ELSE shownColors
     /\ captures' = Without(captures, k)
     /\ IF cd # NoDevice
        THEN RegionSend(cd, sock, sample, ts, throws)
        ELSE UNCHANGED << lastRegionsRef, seqRef, sentPacket, connSocks >>
     /\ UNCHANGED << platform, devices, connectedDevice, isScanning, udpSocket, scanSocks,
                     mockTimers >>
     /\ UNCHANGED << mounted, isActive, intervalRef, timers, updateRate >>

\* Capture k fails: takePictureAsync rejects or returns no photo, or the
\* photo cannot be loaded or drawn.
CaptureFails(k) ==
  /\ captures' = Without(captures, k)
  /\ UNCHANGED << mounted, isActive, shownColors, intervalRef, timers, updateRate >>
  /\ UNCHANGED providerVars

\* The steps of the screen while seqRef is below maxSeq; faults holds TRUE
\* when a send may throw.
ScreenStep(samples, maxSeq, faults) ==
  \/ HandleToggle
  \/ \E rate \in Rates : ChangeUpdateRate(rate)
  \/ UnmountScreen
  \/ \E t \in 1..Len(timers) : Tick(t)
  \/ \E k \in 1..Len(captures), sample \in samples, ts \in Stamps, throws \in faults :
        seqRef < maxSeq /\ CaptureCompletes(k, sample, ts, throws)
  \/ \E k \in 1..Len(captures) : CaptureFails(k)

\* ---------------------------------------------------------- specifications

\* The whole provider.
Next == ScanStep(MaxMainScans, FewDatagrams, Addrs) \/ ConnStep(MaxConnects)

Spec == Init /\ [][Next]_vars

\* Discovery alone, with every kind of well-formed response.
NextScan == ScanStep(MaxScans, WellFormed, Addrs)

SpecScan == Init /\ [][NextScan]_vars

\* Discovery alone, with every kind of datagram, dropped ones too.
NextDrop == ScanStep(MaxMainScans, Datagrams, Addrs)

SpecDrop == Init /\ [][NextDrop]_vars

\* One device, its sessions and the frames streamed on them.
NextStream ==
  \/ ScanStep(MaxMainScans, {WithoutId}, {"10.0.0.1"})
  \/ ConnStep(MaxConnects)
  \/ StreamStep(FewSamples, MaxSeq, {FALSE})

SpecStream == Init /\ [][NextStream]_vars

\* The state of a session on the native platform: the device at 10.0.0.1 was
\* discovered, the scan timed out, and connectDevice bound socket 1.
Lamp == NewDevice(WithoutId, "10.0.0.1")

InitSession ==
  /\ platform = "native"
  /\ devices = << [Lamp EXCEPT !.isConnected = TRUE] >>
  /\ connectedDevice = [Lamp EXCEPT !.isConnected = TRUE]
  /\ isScanning = FALSE
  /\ udpSocket = 1
  /\ seqRef = 0
  /\ lastRegionsRef = UnsetRegions
  /\ scanSocks = << [state |-> "closed", interval |-> FALSE, timeout |-> FALSE, droppedAt |-> NoDrop] >>
  /\ connSocks = << [state |-> "bound", device |-> Lamp, errored |-> FALSE, sendFailed |-> FALSE, frames |-> 0] >>
  /\ mockTimers = 0
  /\ sentPacket = NoPacket
  /\ NoScreen

\* Frames of every sample on one session.
NextFrames ==
  \E colors \in AllSamples, ts \in Stamps :
     seqRef < MaxFrames /\ SendRegionColors(colors, ts, FALSE)

SpecFrames == InitSession /\ [][NextFrames]_vars

\* WrapFrames frames in a row on one session.
NextWrap ==
  \E colors \in FewSamples, ts \in Stamps :
     connSocks[udpSocket].frames < WrapFrames /\ SendRegionColors(colors, ts, FALSE)

SpecWrap == InitSession /\ [][NextWrap]_vars

\* The state in which the camera screen is mounted, after a scan that is
\* over: on the native platform the device at 10.0.0.1 is in the registry,
\* elsewhere the placeholder devices are.
InitEngine ==
  /\ platform \in Platforms
  /\ devices = IF platform = "native" THEN << Lamp >> ELSE MOCK_DEVICES
  /\ connectedDevice = NoDevice
  /\ isScanning = FALSE
  /\ udpSocket = NoSocket
  /\ seqRef = 0
  /\ lastRegionsRef = UnsetRegions
  /\ scanSocks = IF platform = "native"
                 THEN << [state |-> "closed", interval |-> FALSE, timeout |-> FALSE, droppedAt |-> NoDrop] >>
                 ELSE <<>>
  /\ connSocks = <<>>
  /\ mockTimers = 0
  /\ sentPacket = NoPacket
  /\ mounted = TRUE
  /\ isActive = FALSE
  /\ shownColors = PLACEHOLDER
  /\ intervalRef = NoTimer
  /\ timers = <<>>
  /\ captures = <<>>
  /\ updateRate = 10

\* The sample every capture of SpecEngine yields.
EngineSamples == { Regions(Dark, White, Dark, Dark) }

\* The connection and the camera screen.
NextEngine ==
  \/ ConnStep(MaxEngineConnects)
  \/ ScreenStep(EngineSamples, MaxEngineSeq, BOOLEAN)

SpecEngine == InitEngine /\ [][NextEngine]_vars

\* A session on the web (the first placeholder device, no socket) or on the
\* native platform (the device at 10.0.0.1 on socket 1).
InitSend ==
  /\ platform \in {"web", "native"}
  /\ devices = IF platform = "native"
               THEN << [Lamp EXCEPT !.isConnected = TRUE] >>
               ELSE [MOCK_DEVICES EXCEPT ![1].isConnected = TRUE]
  /\ connectedDevice = devices[1]
  /\ isScanning = FALSE
  /\ udpSocket = IF platform = "native" THEN 1 ELSE NoSocket
  /\ seqRef = 0
  /\ lastRegionsRef = UnsetRegions
  /\ scanSocks = IF platform = "native"
                 THEN << [state |-> "closed", interval |-> FALSE, timeout |-> FALSE,
                          droppedAt |-> NoDrop] >>
                 ELSE <<>>
  /\ connSocks = IF platform = "native"
                 THEN << [state |-> "bound", device |-> Lamp, errored |-> FALSE, sendFailed |-> FALSE,
                          frames |-> 0] >>
                 ELSE <<>>
  /\ mockTimers = 0
  /\ sentPacket = NoPacket
  /\ NoScreen

\* Every sample over two colours.
SendSamples == { Regions(t, r, b, l) : t, r, b, l \in {Dark, White} }

\* The sends of one session, those that throw too.
NextSend == StreamStep(SendSamples, MaxSendSeq, BOOLEAN)

SpecSend == InitSend /\ [][NextSend]_vars

\* The timestamps of the encoded headers: both bytes zero, both 255, and
\* values whose high and low bytes differ.
CodecStamps == {0, 4660, 65535}

\* A session whose counter holds any 16-bit value and that has handed no
\* frame over yet: the sends before, if any, threw.
InitCodec ==
  /\ platform = "native"
  /\ devices = << [Lamp EXCEPT !.isConnected = TRUE] >>
  /\ connectedDevice = [Lamp EXCEPT !.isConnected = TRUE]
  /\ isScanning = FALSE
  /\ udpSocket = 1
  /\ seqRef \in 0..(SeqModulus - 1)
  /\ lastRegionsRef = IF seqRef = 0 THEN UnsetRegions ELSE << Dark, Dark, Dark, Dark >>
  /\ scanSocks = << [state |-> "closed", interval |-> FALSE, timeout |-> FALSE, droppedAt |-> NoDrop] >>
  /\ connSocks = << [state |-> "bound", device |-> Lamp, errored |-> FALSE, sendFailed |-> FALSE, frames |-> 0] >>
  /\ mockTimers = 0
  /\ sentPacket = NoPacket
  /\ NoScreen

\* One frame is encoded and handed over.
NextCodec ==
  \E colors \in FewSamples, ts \in CodecStamps :
     sentPacket = NoPacket /\ SendRegionColors(colors, ts, FALSE)

SpecCodec == InitCodec /\ [][NextCodec]_vars

\* A session on the native platform with the camera screen mounted and
\* capturing: the interval of the effect runs with the closure of the
\* connected render.
InitOrder ==
  /\ platform = "native"
  /\ devices = << [Lamp EXCEPT !.isConnected = TRUE] >>
  /\ connectedDevice = [Lamp EXCEPT !.isConnected = TRUE]
  /\ isScanning = FALSE
  /\ udpSocket = 1
  /\ seqRef = 0
  /\ lastRegionsRef = UnsetRegions
  /\ scanSocks = << [state |-> "closed", interval |-> FALSE, timeout |-> FALSE, droppedAt |-> NoDrop] >>
  /\ connSocks = << [state |-> "bound", device |-> Lamp, errored |-> FALSE, sendFailed |-> FALSE, frames |-> 0] >>
  /\ mockTimers = 0
  /\ sentPacket = NoPacket
  /\ mounted = TRUE
  /\ isActive = TRUE
  /\ shownColors = PLACEHOLDER
  /\ intervalRef = 1
  /\ timers = << [live |-> TRUE, period |-> 100, cd |-> connectedDevice, sock |-> udpSocket] >>
  /\ captures = <<>>
  /\ updateRate = 10

\* Ticks with up to MaxOrderCaptures captures awaited at once, captures that
\* complete in any order, and the sends of the user interface.
NextOrder ==
  \/ \E t \in 1..Len(timers) : TickWithin(t, MaxOrderCaptures)
  \/ \E k \in 1..Len(captures), sample \in FewSamples, ts \in Stamps, throws \in BOOLEAN :
        seqRef < MaxOrderSeq /\ CaptureCompletes(k, sample, ts, throws)
  \/ \E k \in 1..Len(captures) : CaptureFails(k)
  \/ StreamStep(FewSamples, MaxOrderSeq, BOOLEAN)

SpecOrder == InitOrder /\ [][NextOrder]_vars

\* Discovery with the timers firing and the binds completing or failing.
ScanFairness ==
  /\ WF_vars(MockTimerFires)
  /\ \A s \in 1..MaxScans :
       /\ WF_vars(s <= Len(scanSocks) /\ ScanTimeout(s))
       /\ WF_vars(s <= Len(scanSocks) /\ (ScanBound(s) \/ ScanBindFails(s)))

SpecScanFair == Init /\ [][NextScan]_vars /\ ScanFairness

\* -------------------------------------------------------------- the claims

\* connectDevice(B) completes in this step: the bind callback of a socket
\* created for B runs, or the web connection is made.
ConnectCompletes(B) ==
  \/ \E c \in 1..Len(connSocks) : connSocks[c].device = B /\ ConnBound(c)
  \/ ConnectDeviceWeb(B)

\* The devices a connect may be completing for.
Connecting == Offered \cup {connSocks[c].device : c \in 1..Len(connSocks)}

\* C1 Session singleton: when connect(B) completes while another device A
\* (another address) is the connected device, then B is the connected device,
\* every registry entry marked connected is B's, and the registry entry that
\* was A's is marked not-connected.
C1_SessionSingleton ==
  [][\A B \in Connecting :
       (/\ connectedDevice # NoDevice
        /\ connectedDevice.ipAddress # B.ipAddress
        /\ ConnectCompletes(B))
       => /\ connectedDevice' = [B EXCEPT !.isConnected = TRUE]
          /\ \A i \in 1..Len(devices') :
               devices'[i].isConnected => devices'[i] = connectedDevice'
          /\ \A i \in 1..Len(devices) :
               devices[i].ipAddress = connectedDevice.ipAddress => ~devices'[i].isConnected
    ]_vars

\* The connection endpoints that are open: bound and not closed.
OpenConnSocks == {c \in 1..Len(connSocks) : connSocks[c].state = "bound"}

\* C2 In every reachable state at most one connection endpoint is open: a
\* connect made while a session is connected releases the prior endpoint
\* before the new session becomes active.
C2_OneOpenEndpoint == Cardinality(OpenConnSocks) <= 1

\* C3 When the active connection endpoint emits an error event while a device
\* is connected, the endpoint is released, the connected device becomes null
\* and its registry entry is marked not-connected.
C3_ErrorDisconnects ==
  [][\A c \in 1..Len(connSocks) :
       (c = udpSocket /\ connectedDevice # NoDevice /\ ConnSocketError(c))
       => /\ connSocks'[c].state = "closed"
          /\ udpSocket' = NoSocket
          /\ connectedDevice' = NoDevice
          /\ \A i \in 1..Len(devices') :
               devices'[i].id = connectedDevice.id => ~devices'[i].isConnected
    ]_vars

\* The fields of a region frame, read back from its bytes.
FrameSeq(packet) == packet.bytes[5] * 256 + packet.bytes[6]
FrameFlags(packet) == packet.bytes[4]
FrameCommand(packet) == packet.bytes[9]

\* The first region frame of the session on connection socket c is handed to
\* the socket in this step.
FirstFrame(c) == connSocks[c].frames = 0 /\ connSocks'[c].frames = 1

\* C4 Every session starts with the sequence counter at 0: the first region
\* frame handed to the socket of each session carries sequence 1.
C4_FreshSequence ==
  [][\A c \in 1..Len(connSocks) : FirstFrame(c) => FrameSeq(sentPacket') = 1]_vars

\* C5 The first region frame of every session is a full update: flags bit 0
\* is 0 and the command byte is 1, whatever was sent on an earlier session.
C5_FirstFrameFull ==
  [][\A c \in 1..Len(connSocks) :
       FirstFrame(c) => (FrameFlags(sentPacket') % 2 = 0 /\ FrameCommand(sentPacket') = 1)
    ]_vars

\* A region frame is handed to connection socket c in this step.
FrameHanded(c) == connSocks'[c].frames = connSocks[c].frames + 1

DiffSet(new, previous) == {i \in 0..3 : new[i + 1] # previous[i + 1]}

\* list holds the members of set, each once, in ascending order.
AscendingListOf(list, set) ==
  /\ Len(list) = Cardinality(set)
  /\ {list[k] : k \in 1..Len(list)} = set
  /\ \A k \in 1..(Len(list) - 1) : list[k] < list[k + 1]

\* The region indices of the entries of a delta frame, in the order sent.
DeltaIndexes(packet) == [k \in 1..packet.bytes[10] |-> packet.bytes[11 + 4 * (k - 1)]]

\* C7 Delta correctness: for every previous and every new tuple of region
\* colours the changed-index list is exactly the indices where they differ
\* as strings, ascending; the frame is delta-encoded (flag 1, command 2, one
\* entry per changed index) iff 1, 2 or 3 indices changed, and full (flag 0,
\* command 1) when 0 or 4 did.
C7_DeltaCorrect ==
  [][FrameHanded(1) =>
       LET previous == lastRegionsRef
           new == lastRegionsRef'
           diff == DiffSet(new, previous)
           isDelta == Cardinality(diff) \in 1..3
       IN /\ AscendingListOf(ChangedIndexes(new, previous), diff)
          /\ FrameFlags(sentPacket') = (IF isDelta THEN 1 ELSE 0)
          /\ FrameCommand(sentPacket') = (IF isDelta THEN 2 ELSE 1)
          /\ isDelta => /\ Len(sentPacket'.bytes) = 10 + 4 * Cardinality(diff)
                        /\ AscendingListOf(DeltaIndexes(sentPacket'), diff)
          /\ ~isDelta => Len(sentPacket'.bytes) = 21
    ]_vars

\* A delta frame with two entries, for colours that differ only as strings
\* ("#ffffff" sent, "FFFFFF" sent before), was handed over.
C7_Witness ==
  /\ sentPacket.kind = "region"
  /\ FrameFlags(sentPacket) = 1
  /\ DeltaIndexes(sentPacket) = << 1, 3 >>
  /\ lastRegionsRef = << WHITE, White, WHITE, White >>

\* No two registry entries have the same address.
UniqueAddresses ==
  \A i, j \in 1..Len(devices) : devices[i].ipAddress = devices[j].ipAddress => i = j

\* C8 Device de-duplication: the registry holds one entry per sender address,
\* in first-seen order: a well-formed response from a known address changes
\* the signal strength of that entry, to the value received, and nothing
\* else; one from a new address appends an entry for it.
C8_Deduplication ==
  /\ []UniqueAddresses
  /\ [][\A s \in 1..Len(scanSocks), msg \in Datagrams, address \in Addrs :
          (msg.parses /\ msg.type = "ESP_LED_DEVICE" /\ ScanMessage(s, msg, address))
          => IF \E i \in 1..Len(devices) : devices[i].ipAddress = address
             THEN /\ Len(devices') = Len(devices)
                  /\ \A i \in 1..Len(devices) :
                       devices'[i] = IF devices[i].ipAddress = address
                                     THEN [devices[i] EXCEPT !.rssi = msg.rssi]
                                     ELSE devices[i]
             ELSE /\ Len(devices') = Len(devices) + 1
                  /\ SubSeq(devices', 1, Len(devices)) = devices
                  /\ devices'[Len(devices')].ipAddress = address
                  /\ devices'[Len(devices')].rssi = msg.rssi
       ]_vars

\* Two devices were discovered and the first one then answered again, with
\* another name, port and signal strength: only the signal strength is new.
C8_Witness ==
  /\ Len(devices) = 2
  /\ devices[1] = [NewDevice(WithoutId, "10.0.0.2") EXCEPT !.rssi = -62]
  /\ devices[2].ipAddress = "10.0.0.1"

\* C9 Whenever the discovery service reports Idle, no repeating broadcast is
\* scheduled and no discovery endpoint is open.
C9_IdleIsQuiet ==
  ~isScanning =>
     \A s \in 1..Len(scanSocks) : ~scanSocks[s].interval /\ scanSocks[s].state # "bound"

\* C10 Every scan that enters Scanning returns to Idle, whether or not
\* stopScan is called and also when the endpoint fails to bind.
C10_ScanEnds == isScanning ~> ~isScanning

\* disconnect() is called in this step, its close() throwing or not.
DisconnectCalled == \E closeThrows \in BOOLEAN : DisconnectDevice(closeThrows)

\* The Disconnected state: no endpoint is held, no device is connected and
\* no registry entry is marked connected.
IsDisconnected(st) ==
  /\ st.udpSocket = NoSocket
  /\ st.connectedDevice = NoDevice
  /\ \A i \in 1..Len(st.devices) : ~st.devices[i].isConnected

\* C11 disconnect() releases the connection endpoint if one is held, clears
\* the connected device and leaves the state Disconnected; called with no
\* active session it changes nothing; and a second disconnect() right after
\* the first changes nothing more.
C11_DisconnectIdempotent ==
  [][DisconnectCalled =>
       /\ IsDisconnected(ConnState')
       /\ udpSocket # NoSocket => connSocks'[udpSocket].state = "closed"
       /\ (udpSocket = NoSocket /\ connectedDevice = NoDevice) => UNCHANGED vars
       /\ \A again \in BOOLEAN :
            Disconnected(ConnState', connectedDevice', udpSocket', again) = ConnState'
    ]_vars

\* What disconnect() does when close() does not throw: everything C11 says.
DisconnectWhenCloseSucceeds ==
  [][DisconnectDevice(FALSE) =>
       /\ IsDisconnected(ConnState')
       /\ udpSocket # NoSocket => connSocks'[udpSocket].state = "closed"
       /\ (udpSocket = NoSocket /\ connectedDevice = NoDevice) => UNCHANGED vars
       /\ Disconnected(ConnState', connectedDevice', udpSocket', FALSE) = ConnState'
    ]_vars

\* sendRegionColors(colors) is called in this step: by the user interface,
\* through the latest render, or by a capture that completes, through the
\* closure of the tick that began it.
RegionSendCalled(colors) ==
  \/ \E ts \in Stamps, throws \in BOOLEAN : SendRegionColors(colors, ts, throws)
  \/ \E k \in 1..Len(captures), ts \in Stamps, throws \in BOOLEAN :
        captures[k].cd # NoDevice /\ CaptureCompletes(k, colors, ts, throws)

ColorSendCalled ==
  \E color \in {White, Red}, throws \in BOOLEAN : SendColor(color, throws)

\* C12 Sending while not connected is a no-op: a sendRegionColors or
\* sendColor call made while no device is connected hands nothing to a
\* socket and leaves the sequence counter, the last-sent tuple, the registry
\* and the connection state unchanged.
C12_SendWhileNotConnected ==
  [][(/\ connectedDevice = NoDevice
      /\ (ColorSendCalled \/ \E colors \in AllSamples : RegionSendCalled(colors)))
     => UNCHANGED << sentPacket, seqRef, lastRegionsRef, devices, connectedDevice,
                     udpSocket, connSocks >>
    ]_vars

\* What the calls made through the latest render do while no device is
\* connected: nothing.
SendThroughLatestRender ==
  [][(/\ connectedDevice = NoDevice
      /\ \/ ColorSendCalled
         \/ \E colors \in AllSamples, ts \in Stamps, throws \in BOOLEAN :
              SendRegionColors(colors, ts, throws))
     => UNCHANGED << sentPacket, seqRef, lastRegionsRef, devices, connectedDevice,
                     udpSocket, connSocks >>
    ]_vars

\* C13 After every region transmit attempt made while a device is connected
\* the last-sent tuple is the four regions of that attempt, whether a frame
\* was handed over, the send threw or no frame was built; and nothing else
\* ever changes the last-sent tuple, so a failed send never rolls it back.
C13_BaselineCommitted ==
  /\ [][\A colors \in SendSamples :
          (connectedDevice # NoDevice /\ RegionSendCalled(colors))
          => lastRegionsRef' = RegionsOf(colors)]_vars
  /\ [][lastRegionsRef' # lastRegionsRef
        => \E colors \in SendSamples :
             RegionSendCalled(colors) /\ lastRegionsRef' = RegionsOf(colors)]_vars

\* A send threw on the first attempt of a session (a sequence number was
\* used and no packet was handed over) and the tuple of the attempt is the
\* last-sent tuple.
C13_Witness ==
  /\ platform = "native"
  /\ connectedDevice # NoDevice
  /\ seqRef = 1
  /\ sentPacket = NoPacket
  /\ lastRegionsRef = << Dark, White, Dark, Dark >>

\* C14 No-network scenario: startScan without a broadcast-capable transport
\* enters Scanning with an empty registry; when a simulated delay elapses the
\* registry holds the fixed, non-empty placeholder devices and the service
\* is Idle; and that state is reached after every such startScan, whatever
\* stopScan and startScan calls are made during the delay.
C14_PlaceholderScan ==
  /\ Len(MOCK_DEVICES) > 0
  /\ [][StartScanMock => (isScanning' /\ devices' = <<>>)]_vars
  /\ [][MockTimerFires => (devices' = MOCK_DEVICES /\ ~isScanning')]_vars
  /\ (mockTimers > 0) ~> (devices = MOCK_DEVICES /\ ~isScanning)

\* The delay of a first startScan elapsed, while that of a second startScan
\* made during it is still pending: the placeholder devices are there and
\* the service is Idle.
C14_Witness ==
  /\ platform = "expo"
  /\ mockTimers = 1
  /\ devices = MOCK_DEVICES
  /\ ~isScanning

\* C15 A discovery datagram that does not parse, or whose type is not
\* ESP_LED_DEVICE, leaves the registry, the scanning state and the
\* connection state unchanged and does not end the scan: the socket stays
\* bound with its interval and its timeout; and a well-formed response that
\* comes after it is processed as any other.
C15_MalformedDropped ==
  /\ [][\A s \in 1..Len(scanSocks), msg \in Datagrams, address \in Addrs :
          (Malformed(msg) /\ ScanMessage(s, msg, address))
          => /\ UNCHANGED << devices, isScanning, connectedDevice, udpSocket, connSocks >>
             /\ scanSocks'[s].state = "bound"
             /\ scanSocks'[s].interval = scanSocks[s].interval
             /\ scanSocks'[s].timeout = scanSocks[s].timeout]_vars
  /\ [][\A s \in 1..Len(scanSocks), msg \in Datagrams, address \in Addrs :
          (/\ ~Malformed(msg)
           /\ scanSocks[s].droppedAt # NoDrop
           /\ ScanMessage(s, msg, address))
          => devices' = UpsertDevice(devices, NewDevice(msg, address))]_vars

\* A datagram was dropped while the registry was empty, the scan is still
\* running, and a response that came later is in the registry.
C15_Witness ==
  /\ Len(scanSocks) = 1
  /\ scanSocks[1].droppedAt = 0
  /\ scanSocks[1].state = "bound"
  /\ scanSocks[1].interval
  /\ isScanning
  /\ Len(devices) = 1

\* What the context shows of discovery, after startScan was refused for want
\* of the permission (the state is left as it was), and after a scan that
\* ended with no device found.
RefusedOutcome == [isScanning |-> isScanning, devices |-> devices]
NoDevicesFoundOutcome == [isScanning |-> FALSE, devices |-> <<>>]

\* C16 When the permission is denied startScan refuses the scan: the service
\* does not enter Scanning, no endpoint is opened, the registry is unchanged,
\* and what the caller sees differs from a scan that ended with no device
\* found.
C16_RefusalObservable ==
  platform = "native" => RefusedOutcome # NoDevicesFoundOutcome

\* The capture intervals that are live.
LiveTimers == {t \in 1..Len(timers) : timers[t].live}

\* The engine runs: the screen is mounted and active.
EngineRuns == mounted /\ isActive

\* C17 Across engine start, stop, update-rate change, connection change and
\* unmount at most one capture interval is live, none is live while the
\* engine is stopped, the live one has the period of the current update rate
\* and the closure of the current connection, and no live interval is ever
\* changed in place: a change of the rate or of the connection clears the
\* running interval and creates a new one.
C17_OneCaptureTimer ==
  /\ [](Cardinality(LiveTimers) <= 1)
  /\ [](~EngineRuns => LiveTimers = {})
  /\ [](\A t \in LiveTimers :
          /\ t = intervalRef
          /\ timers[t].period = 1000 \div updateRate
          /\ timers[t].cd = connectedDevice
          /\ timers[t].sock = udpSocket)
  /\ [][\A t \in LiveTimers : timers'[t].live => timers'[t] = timers[t]]_vars
  /\ [][(EngineRuns /\ EngineRuns' /\
           (updateRate' # updateRate \/ connectedDevice' # connectedDevice
              \/ udpSocket' # udpSocket))
        => /\ \A t \in LiveTimers : ~timers'[t].live
           /\ Len(timers') = Len(timers) + 1
           /\ timers'[Len(timers')].live]_vars

\* The update rate was changed while the engine ran: the first interval is
\* cleared and a second one, of period 200 ms, is live.
C17_Witness ==
  /\ EngineRuns
  /\ updateRate = 5
  /\ Len(timers) = 2
  /\ ~timers[1].live
  /\ timers[2].live
  /\ timers[2].period = 200

\* C18 While the engine is stopped the colours shown are the neutral
\* placeholder: stopping resets them, and a capture that a tick began before
\* the stop and that completes after it does not change them.
C18_PlaceholderWhileStopped ==
  (mounted /\ ~isActive) => shownColors = PLACEHOLDER

PendingBinds == {c \in 1..Len(connSocks) : connSocks[c].state = "binding"}

\* C20 The later connect wins: when the last pending bind completes, and the
\* socket of the latest connect call is bound, the connected device is the
\* device of that latest call, whether its bind completed before or after
\* those of the earlier calls.
C20_LaterConnectWins ==
  [][\A c \in 1..Len(connSocks) :
       (/\ ConnBound(c)
        /\ PendingBinds = {c}
        /\ connSocks'[Len(connSocks)].state = "bound")
       => connectedDevice' = [connSocks[Len(connSocks)].device EXCEPT !.isConnected = TRUE]
    ]_vars

\* The big-endian 16-bit word and the three bytes at a 0-based offset of a
\* frame.
WordAt(bytes, offset) == bytes[offset + 1] * 256 + bytes[offset + 2]
TripleAt(bytes, offset) == << bytes[offset + 1], bytes[offset + 2], bytes[offset + 3] >>

\* The red, green and blue bytes of the sampled colours.
ExpectedRGB(colour) == IF colour = Dark THEN << 16, 32, 48 >> ELSE << 255, 255, 255 >>

\* C21 Every region frame handed to the transport is an 8-byte big-endian
\* header (magic at offset 0, version at 2, flags at 3, sequence at 4, the
\* timestamp at 6) followed by a full payload (command 1, then the RGB
\* triples of top, right, bottom, left) or a delta payload (command 2,
\* changedCount, then exactly changedCount entries (regionIndex, R, G, B),
\* regionIndex in 0..3 ascending); flags bit 0 is 1 exactly for a delta.
C21_FrameLayout ==
  sentPacket.kind = "region" =>
    LET b == sentPacket.bytes
    IN /\ Len(b) >= 9
       /\ \A i \in 1..Len(b) : b[i] \in 0..255
       /\ WordAt(b, 0) = 43981
       /\ b[3] = 1
       /\ WordAt(b, 4) = seqRef
       /\ WordAt(b, 6) \in Stamps
       /\ \/ /\ b[9] = 1
             /\ b[4] % 2 = 0
             /\ Len(b) = 8 + 1 + 12
             /\ \A i \in 0..3 : TripleAt(b, 9 + 3 * i) = ExpectedRGB(lastRegionsRef[i + 1])
          \/ /\ b[9] = 2
             /\ b[4] % 2 = 1
             /\ Len(b) = 8 + 2 + 4 * b[10]
             /\ \A k \in 0..(b[10] - 1) :
                  /\ b[11 + 4 * k] \in 0..3
                  /\ TripleAt(b, 11 + 4 * k) = ExpectedRGB(lastRegionsRef[b[11 + 4 * k] + 1])
                  /\ k > 0 => b[11 + 4 * (k - 1)] < b[11 + 4 * k]

\* A delta frame of three entries was handed over after a full frame.
C21_Witness ==
  /\ sentPacket.kind = "region"
  /\ seqRef = 2
  /\ sentPacket.bytes[9] = 2
  /\ sentPacket.bytes[10] = 3
  /\ Len(sentPacket.bytes) = 22

\* C22 The single-colour command hands exactly the 4-byte packet
\* [0, R, G, B] to the socket, addressed to the connected device, and never
\* changes the sequence counter or the last-sent tuple: a region frame
\* carries the sequence that follows the counter and is full or delta by the
\* tuple of the region attempt before it, whatever colour commands were
\* sent in between.
C22_LegacyColour ==
  /\ [][ColorSendCalled => UNCHANGED << seqRef, lastRegionsRef >>]_vars
  /\ [][\A color \in {White, Red} :
          (platform = "native" /\ SendColor(color, FALSE))
          => sentPacket' =
               [kind |-> "color", sock |-> udpSocket,
                address |-> connectedDevice.ipAddress, port |-> connectedDevice.port,
                bytes |-> << 0 >> \o (IF color = White THEN << 255, 255, 255 >>
                                                     ELSE << 0, 0, 0 >>)]
       ]_vars
  /\ [][(sentPacket'.kind = "region" /\ sentPacket' # sentPacket)
        => /\ FrameSeq(sentPacket') = (seqRef + 1) % 65536
           /\ FrameFlags(sentPacket') =
                (IF Cardinality(DiffSet(lastRegionsRef', lastRegionsRef)) \in 1..3
                 THEN 1 ELSE 0)
       ]_vars

\* A colour packet is the last one handed over, after the first region
\* frame of the session.
C22_Witness ==
  /\ platform = "native"
  /\ sentPacket.kind = "color"
  /\ sentPacket.bytes = << 0, 255, 255, 255 >>
  /\ seqRef = 1
  /\ connSocks[1].frames = 1
  /\ lastRegionsRef = << Dark, White, Dark, Dark >>

\* The decoder of the 8-byte header, as the wire format describes it: a
\* buffer shorter than the header, or whose magic or version mismatches, is
\* rejected.
Rejected == [rejected |-> TRUE]

DecodeHeader(bytes) ==
  IF Len(bytes) < 8 \/ WordAt(bytes, 0) # 43981 \/ bytes[3] # 1
  THEN Rejected
  ELSE [sequence |-> WordAt(bytes, 4), flags |-> bytes[4], timestamp |-> WordAt(bytes, 6)]

\* Byte values to overwrite a header byte with.
OtherBytes == {0, 1, 2, 171, 205, 255}

\* C23 Header round-trip: for every sequence in 0..65535, each flags value
\* and timestamp, decoding the 8-byte header the encoder wrote gives back
\* that sequence, those flags and that timestamp; and the decoder rejects the
\* buffer when one of its magic bytes or its version byte is replaced.
C23_HeaderRoundTrip ==
  /\ [][\A colors \in FewSamples, ts \in CodecStamps :
          (SendRegionColors(colors, ts, FALSE) /\ sentPacket' # sentPacket)
          => DecodeHeader(sentPacket'.bytes) =
               [sequence |-> (seqRef + 1) % 65536,
                flags |-> (IF Cardinality(DiffSet(RegionsOf(colors), lastRegionsRef)) \in 1..3
                           THEN 1 ELSE 0),
                timestamp |-> ts]
       ]_vars
  /\ [](sentPacket.kind = "region" =>
          \A i \in 1..3, v \in OtherBytes :
             v # sentPacket.bytes[i]
             => DecodeHeader([sentPacket.bytes EXCEPT ![i] = v]) = Rejected)

\* The header of sequence 0 (the counter wrapped from 65535), of a delta
\* frame with timestamp 0x1234, was decoded.
C23_Witness ==
  /\ sentPacket.kind = "region"
  /\ seqRef = 0
  /\ DecodeHeader(sentPacket.bytes) = [sequence |-> 0, flags |-> 1, timestamp |-> 4660]

\* sendRegionColors(colors) is called in this step, and its send throws or
\* does not.
RegionSendIssued(colors, throws) ==
  \/ \E ts \in Stamps : SendRegionColors(colors, ts, throws)
  \/ \E k \in 1..Len(captures), ts \in Stamps :
        captures[k].cd # NoDevice /\ CaptureCompletes(k, colors, ts, throws)

\* C24 Each sendRegionColors call made while connected with an open
\* endpoint issues exactly one send of one frame, also when no region
\* changed: the counter goes up by exactly 1 modulo 65536 and the last-sent
\* tuple is that of the call before the send is issued, and the frame the
\* socket takes carries the new counter value.  So frames are handed over one
\* at a time, each with the number that follows the one of the send issued
\* before it, and no other operation changes the counter, with captures
\* awaited together and completing in any order.
C24_OneFramePerCall ==
  /\ [][\A colors \in FewSamples, throws \in BOOLEAN :
          RegionSendIssued(colors, throws)
          => /\ seqRef' = (seqRef + 1) % 65536
             /\ lastRegionsRef' = RegionsOf(colors)
             /\ throws => UNCHANGED << sentPacket, connSocks >>
             /\ ~throws => /\ connSocks'[1].frames = connSocks[1].frames + 1
                           /\ sentPacket'.kind = "region"
                           /\ FrameSeq(sentPacket') = seqRef'
                           /\ Len(sentPacket'.bytes) > 8
       ]_vars
  /\ [][seqRef' # seqRef => \E colors \in FewSamples : RegionSendCalled(colors)]_vars
  /\ [][connSocks'[1].frames # connSocks[1].frames
        => /\ connSocks'[1].frames = connSocks[1].frames + 1
           /\ FrameSeq(sentPacket') = (seqRef + 1) % 65536
       ]_vars

\* The second frame was handed over for a tuple equal to the one before it
\* (no region changed: a full frame), while two more captures are awaited.
C24_Witness ==
  /\ sentPacket.kind = "region"
  /\ connSocks[1].frames = 2
  /\ seqRef = 2
  /\ FrameSeq(sentPacket) = 2
  /\ FrameCommand(sentPacket) = 1
  /\ lastRegionsRef = << Dark, Dark, Dark, Dark >>
  /\ shownColors = Sampled(Regions(Dark, Dark, Dark, Dark))
  /\ Len(captures) = 2

\* C25 A send failure, reported through the completion callback or thrown
\* by the send call, of sendRegionColors or sendColor is only logged: the
\* connected device, the connection socket and the registry are as before,
\* and the next send is still made on that socket.
C25_SendFailureLogged ==
  /\ [][SendCallback(TRUE)
        => /\ UNCHANGED << connectedDevice, udpSocket, devices, seqRef, lastRegionsRef,
                           sentPacket >>
           /\ \A c \in 1..Len(connSocks) : connSocks'[c].state = connSocks[c].state
       ]_vars
  /\ [][(\/ \E colors \in SendSamples : RegionSendIssued(colors, TRUE)
         \/ \E color \in {White, Red} : SendColor(color, TRUE))
        => UNCHANGED << connectedDevice, udpSocket, devices, connSocks, sentPacket >>
       ]_vars
  /\ [][\A colors \in SendSamples :
          (/\ platform = "native"
           /\ connSocks[1].sendFailed \/ seqRef > connSocks[1].frames
           /\ RegionSendIssued(colors, FALSE))
          => /\ connSocks'[1].frames = connSocks[1].frames + 1
             /\ sentPacket'.kind = "region"
             /\ sentPacket'.sock = udpSocket
             /\ connSocks'[1].state = "bound"
       ]_vars

\* A send threw (its number, 1, was used), the next frame, number 2, was
\* handed over and the socket reported a send error: the session is still
\* connected on the same socket.
C25_Witness ==
  /\ platform = "native"
  /\ connectedDevice = [Lamp EXCEPT !.isConnected = TRUE]
  /\ udpSocket = 1
  /\ connSocks[1].state = "bound"
  /\ connSocks[1].sendFailed
  /\ connSocks[1].frames = 1
  /\ seqRef = 2
  /\ sentPacket.kind = "region"
  /\ FrameSeq(sentPacket) = 2

\* The positions of the registry entries marked connected.
ConnectedEntries == {i \in 1..Len(devices) : devices[i].isConnected}

\* C26 After any sequence of discovery responses and connect calls the
\* registry holds at most one entry marked connected and at most one entry
\* per network address, also when two devices at different addresses report
\* the same id.
C26_OneConnectedEntry ==
  /\ Cardinality(ConnectedEntries) <= 1
  /\ UniqueAddresses

\* C27 Whenever a device is connected and the registry holds an entry for
\* that device (its id at its address), that entry is marked connected, also
\* after a new scan cleared the registry and found the device again.
C27_ConnectedEntryMarked ==
  connectedDevice # NoDevice =>
    \A i \in 1..Len(devices) :
       (devices[i].id = connectedDevice.id /\ devices[i].ipAddress = connectedDevice.ipAddress)
       => devices[i].isConnected

\* The bind of connection socket c is pending and was pending when
\* disconnectDevice ran: a socket created after c is closed, and only
\* disconnectDevice closes a socket.
PendingAtDisconnect(c) ==
  /\ connSocks[c].state = "binding"
  /\ \E d \in (c + 1)..Len(connSocks) : connSocks[d].state = "closed"

\* C28 A connect whose bind was pending when disconnect() ran does not
\* later make a device connected or leave an open connection socket behind:
\* when that bind completes, the connected device and the socket in use are
\* as before and the socket is not left bound.
C28_DisconnectCancelsPending ==
  [][\A c \in 1..Len(connSocks) :
       (PendingAtDisconnect(c) /\ ConnBound(c))
       => /\ connectedDevice' = connectedDevice
          /\ udpSocket' = udpSocket
          /\ connSocks'[c].state # "bound"
    ]_vars

\* C29 Without connect and disconnect calls the registry changes only
\* while the service is Scanning, or when a startScan call empties it: once
\* the service is Idle after stopScan, no discovery response and no
\* placeholder-population timer of the stopped scan adds, replaces or
\* modifies an entry.
C29_RegistryFrozenWhenIdle ==
  [][(~isScanning /\ devices' # devices) => (isScanning' /\ devices' = <<>>)]_vars

\* The discovery sockets that are open, and those whose broadcast interval
\* is running.
OpenScanSocks == {s \in 1..Len(scanSocks) : scanSocks[s].state = "bound"}
BroadcastingSocks == {s \in 1..Len(scanSocks) : scanSocks[s].interval}

\* C30 At most one discovery socket is open and at most one broadcast
\* interval runs at any time, also after startScan is called while the
\* socket of an earlier scan is still open.
C30_OneDiscoveryEndpoint ==
  /\ Cardinality(OpenScanSocks) <= 1
  /\ Cardinality(BroadcastingSocks) <= 1

\* C31 On the platform with real sockets the connected device is non-null
\* exactly when a connection socket is held, in every state between two
\* handlers: disconnect() never leaves a held socket without a connected
\* device, also when close() throws, and connect never shows a connected
\* device without a held socket.
C31_DeviceIffEndpoint ==
  platform = "native" => (connectedDevice # NoDevice <=> udpSocket # NoSocket)

\* What holds of the code: a connected device is never shown without a
\* held socket, and only a disconnect() whose close() throws leaves a held
\* socket without a connected device.
DeviceIffEndpointUnlessCloseThrows ==
  /\ [](platform = "native" => (connectedDevice # NoDevice => udpSocket # NoSocket))
  /\ [][(C31_DeviceIffEndpoint /\ ~DisconnectDevice(TRUE)) => C31_DeviceIffEndpoint']_vars

====
